---- MODULE Spec2Model ----
(* Supernote X note decoder (src/src/parsing.ts): the block resolver, the      *)
(* tagged-text extractor, the key grouper, the layer-info grammar and the     *)
(* document assembler, with the JavaScript semantics their code relies on.    *)
EXTENDS Integers, Sequences, FiniteSets, TLC

VARIABLES buffer, pc, err, signature, footer, header, pages, cover, keywords,
          titles, args, ret

vars == <<buffer, pc, err, signature, footer, header, pages, cover, keywords,
          titles, args, ret>>

doc == <<signature, footer, header, pages, cover, keywords, titles>>

(* ------------------------------------------------------------------------ *)
(* Bounds of the checked input spaces.                                       *)
(* ------------------------------------------------------------------------ *)

\* Most data bytes of a buffer handed to getContentAtAddress on its own.
MaxBufLen == 4

\* Most fragments concatenated into one tagged text.
MaxFrags == 3

\* Most fragments concatenated into one layer-info text.
MaxLayerFrags == 3

\* Most entries in a flat record handed to extractNestedKeyValue on its own.
MaxEntries == 2

(* ------------------------------------------------------------------------ *)
(* JavaScript values.                                                        *)
(* ------------------------------------------------------------------------ *)

\* The value of a field that no stage has assigned yet.
Undefined == "undefined"

\* const x = v; then f(x): v is evaluated once.
Let(v, f(_)) == f(v)

\* A call that returned normally, and one that threw.
Ok(v) == [threw |-> "none", value |-> v]

Throw(e) == [threw |-> e, value |-> Undefined]

\* Characters 32..95 and 97..126, in code order (a string literal cannot hold
\* character 96, the grave accent).
PrintableLow ==
  " !\"#$%&'()*+,-./0123456789:;<=>?@ABCDEFGHIJKLMNOPQRSTUVWXYZ[\\]^_"

PrintableHigh == "abcdefghijklmnopqrstuvwxyz{|}~"

\* Buffer.toString of one byte. The other bytes of the modelled buffers (0..9
\* and 96) decode to characters that are no digit and that no pattern of the
\* program names; "\t" stands for all of them.
Chr(b) ==
  IF b \in 32..95 THEN SubSeq(PrintableLow, b - 31, b - 31)
  ELSE IF b \in 97..126 THEN SubSeq(PrintableHigh, b - 96, b - 96)
  ELSE "\t"

Ord(c) == CHOOSE b \in 32..126 : Chr(b) = c

CharAt(s, i) == SubSeq(s, i, i)

\* Buffer.toString: the characters of the bytes, in order.
RECURSIVE BytesToString(_)
BytesToString(bytes) ==
  IF bytes = <<>> THEN ""
  ELSE IF Len(bytes) = 1 THEN Chr(bytes[1])
  ELSE LET h == Len(bytes) \div 2
       IN  BytesToString(SubSeq(bytes, 1, h))
             \o BytesToString(SubSeq(bytes, h + 1, Len(bytes)))

StringToBytes(s) == [i \in 1..Len(s) |-> Ord(CharAt(s, i))]

\* The result of parseInt on a string with no leading numeral: an integer that
\* no numeral of the modelled lengths denotes.
NaN == 0 - 2000000000

Digits == "0123456789"

IsDigit(c) == \E i \in 1..10 : CharAt(Digits, i) = c

DigitVal(c) == (CHOOSE i \in 1..10 : CharAt(Digits, i) = c) - 1

\* The white space parseInt skips, among the characters of the modelled texts.
IsSpace(c) == c \in {" ", "\n", "\r"}

RECURSIVE SkipSpace(_, _)
SkipSpace(s, i) ==
  IF i <= Len(s) /\ IsSpace(CharAt(s, i)) THEN SkipSpace(s, i + 1) ELSE i

\* The value of the decimal digits of s from position i on, after acc.
RECURSIVE ParseDigits(_, _, _)
ParseDigits(s, i, acc) ==
  IF i <= Len(s) /\ IsDigit(CharAt(s, i))
  THEN ParseDigits(s, i + 1, acc * 10 + DigitVal(CharAt(s, i)))
  ELSE acc

ParseUnsigned(s, j) ==
  IF j <= Len(s) /\ IsDigit(CharAt(s, j)) THEN ParseDigits(s, j, 0) ELSE NaN

Negated(n) == IF n = NaN THEN NaN ELSE 0 - n

ParseSigned(s, i) ==
  IF i <= Len(s) /\ CharAt(s, i) = "-" THEN Negated(ParseUnsigned(s, i + 1))
  ELSE IF i <= Len(s) /\ CharAt(s, i) = "+" THEN ParseUnsigned(s, i + 1)
  ELSE ParseUnsigned(s, i)

\* parseInt(s) for a string: leading white space, an optional sign, then the
\* longest run of decimal digits; NaN when there is none.
ParseInt(s) == ParseSigned(s, SkipSpace(s, 1))

(* ------------------------------------------------------------------------ *)
(* getContentAtAddress                                                        *)
(* ------------------------------------------------------------------------ *)

\* What getContentAtAddress returns for address 0.
Null == [kind |-> "null", bytes |-> <<>>]

Content(bytes) == [kind |-> "buffer", bytes |-> bytes]

\* Buffer.readUintLE(address, byteLength) once its range checks have passed:
\* byte i of the field weighs 256^i.
RECURSIVE ReadUintLE(_, _, _)
ReadUintLE(buf, address, byteLength) ==
  IF byteLength = 0 THEN 0
  ELSE buf[address + 1] + 256 * ReadUintLE(buf, address + 1, byteLength - 1)

\* Buffer.subarray(start, end): both ends are clamped to the buffer.
Subarray(buf, start, end) ==
  LET s == IF start > Len(buf) THEN Len(buf) ELSE start
      e == IF end > Len(buf) THEN Len(buf) ELSE end
  IN  IF e <= s THEN <<>> ELSE SubSeq(buf, s + 1, e)

\* readUintLE's own checks: a width of 1..6 bytes, and a field that lies inside
\* the buffer (NaN and negative addresses fail it too).
FieldInRange(buf, address, byteLength) ==
  /\ byteLength \in 1..6
  /\ address >= 0
  /\ address + byteLength <= Len(buf)

\* A faulty variant: the length field is not skipped.
GetContentAtAddress_NoSkip(buf, address, byteLength) ==
  IF address = 0 THEN Ok(Null)
  ELSE IF ~FieldInRange(buf, address, byteLength) THEN Throw("RangeError")
  ELSE Ok(Content(Subarray(buf, address,
                          address + ReadUintLE(buf, address, byteLength))))

\* readUintLE throws a RangeError when its checks fail; subarray never throws.
GetContentAtAddress(buf, address, byteLength) ==
  IF address = 0 THEN Ok(Null)
  ELSE IF ~FieldInRange(buf, address, byteLength) THEN Throw("RangeError")
  ELSE Ok(Content(Subarray(buf, address + byteLength,
                          address + byteLength
                            + ReadUintLE(buf, address, byteLength))))

(* ------------------------------------------------------------------------ *)
(* JavaScript objects: own properties in property order.                     *)
(* ------------------------------------------------------------------------ *)

\* An object is the sequence of its own properties [k, v], in the order
\* Object.keys and Object.entries give them: array-index keys ascending, then
\* the other keys in insertion order.
EmptyObject == <<>>

HasOwn(o, k) == \E i \in 1..Len(o) : o[i].k = k

Get(o, k) == o[CHOOSE i \in 1..Len(o) : o[i].k = k].v

Keys(o) == [i \in 1..Len(o) |-> o[i].k]

\* The properties every object literal inherits from Object.prototype.
ObjectPrototype ==
  {"constructor", "__proto__", "hasOwnProperty", "isPrototypeOf",
   "propertyIsEnumerable", "toLocaleString", "toString", "valueOf",
   "__defineGetter__", "__defineSetter__", "__lookupGetter__",
   "__lookupSetter__"}

\* The `in` operator on an object literal: own or inherited.
In(k, o) == HasOwn(o, k) \/ k \in ObjectPrototype

\* A canonical array index: decimal digits with no leading zero.
IsIndex(k) ==
  /\ Len(k) >= 1
  /\ \A i \in 1..Len(k) : IsDigit(CharAt(k, i))
  /\ (Len(k) = 1 \/ CharAt(k, 1) # "0")

\* Where a new own property k goes.
InsertAt(o, k) ==
  IF IsIndex(k)
  THEN 1 + Cardinality({i \in 1..Len(o) :
                          IsIndex(o[i].k) /\ ParseInt(o[i].k) < ParseInt(k)})
  ELSE Len(o) + 1

InsertProperty(o, p, e) == SubSeq(o, 1, p - 1) \o <<e>> \o SubSeq(o, p, Len(o))

\* Defining own property k (an object literal's member, a spread member).
Put(o, k, v) ==
  IF HasOwn(o, k)
  THEN [i \in 1..Len(o) |-> IF o[i].k = k THEN [k |-> k, v |-> v] ELSE o[i]]
  ELSE InsertProperty(o, InsertAt(o, k), [k |-> k, v |-> v])

\* The assignment o[k] = v of a string or an array of strings: "__proto__" is
\* the inherited setter, which ignores values that are not objects.
Assign(o, k, v) == IF k = "__proto__" THEN o ELSE Put(o, k, v)

\* { ...a, ...b }
RECURSIVE Spread(_, _)
Spread(a, b) ==
  IF b = <<>> THEN a ELSE Spread(Put(a, Head(b).k, Head(b).v), Tail(b))

\* A string, and an array of strings, as property values.
Str(s) == [list |-> FALSE, v |-> <<s>>]

List(seq) == [list |-> TRUE, v |-> seq]

IsString(x) == ~x.list

StrOf(x) == x.v[1]

RECURSIVE Join(_, _)
Join(seq, sep) ==
  IF seq = <<>> THEN ""
  ELSE IF Len(seq) = 1 THEN seq[1]
  ELSE seq[1] \o sep \o Join(Tail(seq), sep)

\* String(x), as parseInt applies it to its argument.
ToStringV(x) == IF x.list THEN Join(x.v, ",") ELSE StrOf(x)

(* ------------------------------------------------------------------------ *)
(* extractKeyValue                                                            *)
(* ------------------------------------------------------------------------ *)

\* The first position from i on whose character is in `excluded`, or Len+1:
\* where a greedy run of the other characters ends.
RunEnd(s, i, excluded) ==
  CHOOSE j \in i..(Len(s) + 1) :
    /\ j = Len(s) + 1 \/ CharAt(s, j) \in excluded
    /\ \A k \in i..(j - 1) : CharAt(s, k) \notin excluded

\* The first position from i on whose character is c, or Len+1: where the
\* next attempt of a pattern that starts with c can succeed.
NextAt(s, i, c) ==
  CHOOSE j \in i..(Len(s) + 1) :
    /\ j = Len(s) + 1 \/ CharAt(s, j) = c
    /\ \A k \in i..(j - 1) : CharAt(s, k) # c

NoMatch == [ok |-> FALSE, key |-> "", value |-> "", end |-> 0]

\* [^:<>]
KVExcluded == {":", "<", ">"}

\* /<([^:<>]+):([^:<>]+)>/ tried at position p (1-based). Both runs are
\* greedy and exclude the character that must follow them, so the longest
\* run is the only candidate.
MatchKVAt(s, p) ==
  Let(RunEnd(s, p + 1, KVExcluded), LAMBDA k2 :
  Let(RunEnd(s, k2 + 1, KVExcluded), LAMBDA v2 :
    IF /\ p <= Len(s) /\ CharAt(s, p) = "<"
       /\ k2 > p + 1 /\ k2 <= Len(s) /\ CharAt(s, k2) = ":"
       /\ v2 > k2 + 1 /\ v2 <= Len(s) /\ CharAt(s, v2) = ">"
    THEN [ok |-> TRUE, key |-> SubSeq(s, p + 1, k2 - 1),
          value |-> SubSeq(s, k2 + 1, v2 - 1), end |-> v2 + 1]
    ELSE NoMatch))

\* content.matchAll(pattern): leftmost matches, each search resuming where the
\* previous match ended.
RECURSIVE MatchAllKV(_, _)
MatchAllKV(s, p) ==
  Let(NextAt(s, p, "<"), LAMBDA q :
    IF q > Len(s) THEN <<>>
    ELSE Let(MatchKVAt(s, q), LAMBDA m :
           IF m.ok
           THEN <<[key |-> m.key, value |-> m.value]>> \o MatchAllKV(s, m.end)
           ELSE MatchAllKV(s, q + 1)))

\* One step of the reduce. `key in acc` is also true of an inherited property,
\* whose value is neither a string nor iterable: spreading it throws.
ReduceKVStep(acc, key, value) ==
  IF In(key, acc)
  THEN IF ~HasOwn(acc, key) THEN Throw("TypeError")
       ELSE LET old == Get(acc, key)
                newValue == IF IsString(old) THEN <<StrOf(old), value>>
                            ELSE old.v \o <<value>>
            IN  Ok(Assign(acc, key, List(newValue)))
  ELSE Ok(Assign(acc, key, Str(value)))

RECURSIVE ReduceKV(_, _)
ReduceKV(pairs, acc) ==
  IF pairs = <<>> THEN Ok(acc)
  ELSE Let(ReduceKVStep(acc, Head(pairs).key, Head(pairs).value), LAMBDA r :
         IF r.threw # "none" THEN r ELSE ReduceKV(Tail(pairs), r.value))

ExtractKeyValue(content) == ReduceKV(MatchAllKV(content, 1), EmptyObject)

\* parseKeyValue: content.toString() of the resolved block, extracted.
ParseKeyValue(buf, address, byteLength) ==
  Let(GetContentAtAddress(buf, address, byteLength), LAMBDA c :
    IF c.threw # "none" THEN c
    ELSE IF c.value.kind = "null" THEN Ok(EmptyObject)
    ELSE ExtractKeyValue(BytesToString(c.value.bytes)))

(* ------------------------------------------------------------------------ *)
(* extractNestedKeyValue                                                      *)
(* ------------------------------------------------------------------------ *)

\* key.indexOf(delimiter): 0-based, -1 if none.
IndexOf(key, delimiter) ==
  LET at == {i \in 1..(Len(key) - Len(delimiter) + 1) :
               SubSeq(key, i, i + Len(delimiter) - 1) = delimiter}
  IN  IF at = {} THEN 0 - 1
      ELSE (CHOOSE i \in at : \A j \in at : i <= j) - 1

StartsWith(key, prefix) ==
  Len(prefix) <= Len(key) /\ SubSeq(key, 1, Len(prefix)) = prefix

\* key.substring(from) with a 0-based start.
SubstringFrom(key, from) == SubSeq(key, from + 1, Len(key))

NoSplit == [main |-> "", sub |-> ""]

\* The loop over the prefixes: the first one the key starts with.
RECURSIVE PrefixSplit(_, _)
PrefixSplit(key, prefixes) ==
  IF prefixes = <<>> THEN NoSplit
  ELSE IF StartsWith(key, Head(prefixes))
  THEN [main |-> Head(prefixes), sub |-> SubstringFrom(key, Len(Head(prefixes)))]
  ELSE PrefixSplit(key, Tail(prefixes))

\* main and sub of one key; an unset or empty one is "" (both are falsy).
SplitKey(key, delimiter, prefixes) ==
  Let(IndexOf(key, delimiter), LAMBDA idx :
    IF idx > 0 - 1
    THEN [main |-> SubSeq(key, 1, idx), sub |-> SubstringFrom(key, idx + 1)]
    ELSE PrefixSplit(key, prefixes))

\* Properties of the inherited functions that a strict-mode assignment cannot
\* write.
ReadOnlyOfInherited(main) ==
  IF main = "constructor" THEN {"name", "length", "prototype"}
  ELSE IF main = "__proto__" THEN {}
  ELSE {"name", "length"}

\* The end of one entry of the forEach, for a string value. `main in data` is
\* also true of an inherited property; the assignment then lands on the
\* inherited object, not in data (the write to Object.prototype that a main
\* of "__proto__" makes is not followed further).
SetNested(data, main, sub, value) ==
  IF main = "" \/ sub = "" THEN Ok(data)
  ELSE IF HasOwn(data, main)
  THEN Ok(Put(data, main, Assign(Get(data, main), sub, value)))
  ELSE IF In(main, data)
  THEN IF sub \in ReadOnlyOfInherited(main) THEN Throw("TypeError")
       ELSE Ok(data)
  ELSE Ok(Assign(data, main, Put(EmptyObject, sub, value)))

\* One entry of the forEach.
NestedStep(data, key, value, delimiter, prefixes) ==
  IF ~IsString(value) THEN Ok(data)
  ELSE Let(SplitKey(key, delimiter, prefixes), LAMBDA sp :
         SetNested(data, sp.main, sp.sub, StrOf(value)))

RECURSIVE NestedLoop(_, _, _, _)
NestedLoop(entries, data, delimiter, prefixes) ==
  IF entries = <<>> THEN Ok(data)
  ELSE Let(NestedStep(data, Head(entries).k, Head(entries).v, delimiter, prefixes),
           LAMBDA r :
             IF r.threw # "none" THEN r
             ELSE NestedLoop(Tail(entries), r.value, delimiter, prefixes))

ExtractNestedKeyValue(record, delimiter, prefixes) ==
  NestedLoop(record, EmptyObject, delimiter, prefixes)

(* ------------------------------------------------------------------------ *)
(* extractLayerInfo                                                           *)
(* ------------------------------------------------------------------------ *)

\* [^{}]
LayerExcluded == {"{", "}"}

\* [^"\[{}\]]
DictKeyExcluded == {"\"", "[", "{", "}", "]"}

\* [^"\[{}\],]
DictValueExcluded == {"\"", "[", "{", "}", "]", ","}

\* /{(?<content>[^{}]+)}/ tried at position p; `key` is unused.
MatchLayerAt(s, p) ==
  Let(RunEnd(s, p + 1, LayerExcluded), LAMBDA e :
    IF /\ p <= Len(s) /\ CharAt(s, p) = "{"
       /\ e > p + 1 /\ e <= Len(s) /\ CharAt(s, e) = "}"
    THEN [ok |-> TRUE, key |-> "", value |-> SubSeq(s, p + 1, e - 1),
          end |-> e + 1]
    ELSE NoMatch)

\* The contents of the groups, in order.
RECURSIVE MatchAllLayers(_, _)
MatchAllLayers(s, p) ==
  Let(NextAt(s, p, "{"), LAMBDA q :
    IF q > Len(s) THEN <<>>
    ELSE Let(MatchLayerAt(s, q), LAMBDA m :
           IF m.ok THEN <<m.value>> \o MatchAllLayers(s, m.end)
           ELSE MatchAllLayers(s, q + 1)))

\* /"(?<key>[^"\[{}\]]+)"#"?(?<value>[^"\[{}\],]+)/ tried at position p. The
\* optional quote is taken when it is there: without it the value would have
\* to start with that quote, which its class excludes.
MatchDictAt(s, p) ==
  Let(RunEnd(s, p + 1, DictKeyExcluded), LAMBDA k2 :
  Let(IF k2 + 2 <= Len(s) /\ CharAt(s, k2 + 2) = "\"" THEN k2 + 3 ELSE k2 + 2,
      LAMBDA v1 :
  Let(RunEnd(s, v1, DictValueExcluded), LAMBDA v2 :
    IF /\ p <= Len(s) /\ CharAt(s, p) = "\""
       /\ k2 > p + 1 /\ k2 + 1 <= Len(s)
       /\ CharAt(s, k2) = "\"" /\ CharAt(s, k2 + 1) = "#"
       /\ v2 > v1
    THEN [ok |-> TRUE, key |-> SubSeq(s, p + 1, k2 - 1),
          value |-> SubSeq(s, v1, v2 - 1), end |-> v2]
    ELSE NoMatch)))

RECURSIVE MatchAllDict(_, _)
MatchAllDict(s, p) ==
  Let(NextAt(s, p, "\""), LAMBDA q :
    IF q > Len(s) THEN <<>>
    ELSE Let(MatchDictAt(s, q), LAMBDA m :
           IF m.ok
           THEN <<[key |-> m.key, value |-> m.value]>> \o MatchAllDict(s, m.end)
           ELSE MatchAllDict(s, q + 1)))

\* The reduce over a group's pairs: acc[key] = value.
RECURSIVE ReduceDict(_, _)
ReduceDict(pairs, acc) ==
  IF pairs = <<>> THEN acc
  ELSE ReduceDict(Tail(pairs), Assign(acc, Head(pairs).key, Head(pairs).value))

\* data.k ?? dflt, for a k that Object.prototype does not define.
OrDefault(data, k, dflt) == IF HasOwn(data, k) THEN Get(data, k) ELSE dflt

\* data.k === "true"
IsTrue(data, k) == HasOwn(data, k) /\ Get(data, k) = "true"

\* A faulty variant: isVisible is true unless its raw value is "false".
LayerInfoOf_NotFalse(data) ==
  [layerId |-> ParseInt(OrDefault(data, "layerId", "0")),
   name |-> OrDefault(data, "name", "Main layer"),
   isBackgroundLayer |-> IsTrue(data, "isBackgroundLayer"),
   isAllowAdd |-> IsTrue(data, "isAllowAdd"),
   isCurrentLayer |-> IsTrue(data, "isCurrentLayer"),
   isVisible |-> ~(HasOwn(data, "isVisible") /\ Get(data, "isVisible") = "false"),
   isDeleted |-> IsTrue(data, "isDeleted"),
   isAllowUp |-> IsTrue(data, "isAllowUp"),
   isAllowDown |-> IsTrue(data, "isAllowDown")]

LayerInfoOf(data) ==
  [layerId |-> ParseInt(OrDefault(data, "layerId", "0")),
   name |-> OrDefault(data, "name", "Main layer"),
   isBackgroundLayer |-> IsTrue(data, "isBackgroundLayer"),
   isAllowAdd |-> IsTrue(data, "isAllowAdd"),
   isCurrentLayer |-> IsTrue(data, "isCurrentLayer"),
   isVisible |-> IsTrue(data, "isVisible"),
   isDeleted |-> IsTrue(data, "isDeleted"),
   isAllowUp |-> IsTrue(data, "isAllowUp"),
   isAllowDown |-> IsTrue(data, "isAllowDown")]

\* The map over the groups.
LayerInfosOf(layerContents) ==
  [i \in 1..Len(layerContents) |->
     LayerInfoOf(ReduceDict(MatchAllDict(layerContents[i], 1), EmptyObject))]

ExtractLayerInfo(content) == LayerInfosOf(MatchAllLayers(content, 1))

(* ------------------------------------------------------------------------ *)
(* SupernoteX: the stages of _parseBuffer as pure functions of the buffer.   *)
(* ------------------------------------------------------------------------ *)

addressSize == 4

lengthFieldSize == 4

\* The first result that threw, or Ok(Undefined) when none did.
FirstThrow(results) ==
  IF \E i \in 1..Len(results) : results[i].threw # "none"
  THEN results[CHOOSE i \in 1..Len(results) :
                 /\ results[i].threw # "none"
                 /\ \A j \in 1..(i - 1) : results[j].threw = "none"]
  ELSE Ok(Undefined)

\* The values of a sequence of results that did not throw.
Values(results) == [i \in 1..Len(results) |-> results[i].value]

Remove(o, ks) == SelectSeq(o, LAMBDA e : e.k \notin ks)

\* An object literal's members, in order.
RECURSIVE ObjectOf(_)
ObjectOf(members) ==
  IF members = <<>> THEN EmptyObject
  ELSE Spread(<<[k |-> members[1][1], v |-> members[1][2]]>>,
              ObjectOf(Tail(members)))

\* parseInt((data.k as string) ?? "0"), for a k Object.prototype does not define.
AddressIn(data, k) ==
  IF HasOwn(data, k) THEN ParseInt(ToStringV(Get(data, k))) ELSE ParseInt("0")

\* /^noteSN_FILE_VER_\d{8}/.test(content)
SignaturePrefix == "noteSN_FILE_VER_"

\* A faulty variant: the eight digits are not required.
SignatureTest_PrefixOnly(content) == StartsWith(content, SignaturePrefix)

SignatureTest(content) ==
  /\ StartsWith(content, SignaturePrefix)
  /\ Len(content) >= Len(SignaturePrefix) + 8
  /\ \A i \in 1..8 : IsDigit(CharAt(content, Len(SignaturePrefix) + i))

\* _parseSignature: buffer.toString(undefined, 0, 24), then the test.
Signature(buf) ==
  Let(BytesToString(Subarray(buf, 0, 24)), LAMBDA content :
    IF ~SignatureTest(content) THEN Throw("SignatureMismatch") ELSE Ok(content))

FooterDefaults ==
  ObjectOf(<< <<"FILE", ObjectOf(<< <<"FEATURE", "24">> >>)>>,
              <<"COVER", ObjectOf(<< <<"0", "0">> >>)>>,
              <<"KEYWORD", EmptyObject>>,
              <<"TITLE", EmptyObject>>,
              <<"STYLE", EmptyObject>>,
              <<"PAGE", EmptyObject>> >>)

\* The address in the last addressSize bytes.
FooterAddress(buf) ==
  ReadUintLE(SubSeq(buf, Len(buf) - addressSize + 1, Len(buf)), 0, addressSize)

\* _parseFooter: the grouped footer spread over the default groups; a group of
\* the text replaces the default group of the same name whole.
Footer(buf) ==
  Let(ParseKeyValue(buf, FooterAddress(buf), lengthFieldSize), LAMBDA data :
    IF data.threw # "none" THEN data
    ELSE Let(ExtractNestedKeyValue(data.value, "_", <<"PAGE">>), LAMBDA nested :
           IF nested.threw # "none" THEN nested
           ELSE Ok(Spread(FooterDefaults, nested.value))))

HeaderDefaults ==
  ObjectOf(<< <<"MODULE_LABEL", Str("0")>>, <<"FILE_TYPE", Str("0")>>,
              <<"APPLY_EQUIPMENT", Str("0")>>,
              <<"FINAL_OPERATION_PAGE", Str("0")>>,
              <<"FINAL_OPERATION_LAYER", Str("0")>>,
              <<"ORIGINAL_STYLE", Str("0")>>, <<"ORIGINAL_STYLEMD5", Str("0")>>,
              <<"DEVICE_DPI", Str("0")>>, <<"SOFT_DPI", Str("0")>>,
              <<"FILE_PARSE_TYPE", Str("0")>>, <<"RATTA_ETMD", Str("0")>>,
              <<"APP_VERSION", Str("0")>> >>)

\* this.footer.FILE?.FEATURE ? parseInt(this.footer.FILE.FEATURE) : 24.
\* footer.FILE is always there; its FEATURE is not.
HeaderAddress(file) ==
  IF HasOwn(file, "FEATURE") /\ Get(file, "FEATURE") # ""
  THEN ParseInt(Get(file, "FEATURE")) ELSE 24

\* _parseHeader
Header(buf, ftr) ==
  Let(ParseKeyValue(buf, HeaderAddress(Get(ftr, "FILE")), lengthFieldSize),
      LAMBDA data :
        IF data.threw # "none" THEN data
        ELSE Ok(Spread(HeaderDefaults, data.value)))

LayerDefaults ==
  ObjectOf(<< <<"LAYERTYPE", Str("NOTE")>>, <<"LAYERPROTOCOL", Str("RATTA_RLE")>>,
              <<"LAYERNAME", Str("MAINLAYER")>>, <<"LAYERPATH", Str("0")>>,
              <<"LAYERBITMAP", Str("0")>>, <<"LAYERVECTORGRAPH", Str("0")>>,
              <<"LAYERRECOGN", Str("0")>> >>)

\* _parseLayer
Layer(buf, address) ==
  Let(ParseKeyValue(buf, address, lengthFieldSize), LAMBDA data :
    IF data.threw # "none" THEN data
    ELSE Let(GetContentAtAddress(buf, AddressIn(data.value, "LAYERBITMAP"),
                                 lengthFieldSize),
             LAMBDA bitmapBuffer :
               IF bitmapBuffer.threw # "none" THEN bitmapBuffer
               ELSE Ok([fields |-> Remove(Spread(LayerDefaults, data.value),
                                          {"bitmapBuffer"}),
                        bitmapBuffer |-> bitmapBuffer.value])))

\* content.split(",")
RECURSIVE Split(_, _)
Split(s, sep) ==
  Let(IndexOf(s, sep), LAMBDA idx :
    IF idx < 0 THEN <<s>>
    ELSE <<SubSeq(s, 1, idx)>> \o Split(SubstringFrom(s, idx + 1), sep))

\* extractLayerInfo(data["LAYERINFO"] as string): matchAll is a method of
\* strings only; undefined and arrays have none.
LayerInfoIn(data) ==
  IF ~HasOwn(data, "LAYERINFO") \/ ~IsString(Get(data, "LAYERINFO"))
  THEN Throw("TypeError")
  ELSE Ok(ExtractLayerInfo(StrOf(Get(data, "LAYERINFO"))))

\* (data["LAYERSEQ"] as string).split(","): likewise.
LayerSeqIn(data) ==
  IF ~HasOwn(data, "LAYERSEQ") \/ ~IsString(Get(data, "LAYERSEQ"))
  THEN Throw("TypeError")
  ELSE Ok(Split(StrOf(Get(data, "LAYERSEQ")), ","))

PageDefaults ==
  ObjectOf(<< <<"PAGESTYLE", Str("0")>>, <<"PAGESTYLEMD5", Str("0")>>,
              <<"LAYERSWITCH", Str("0")>>, <<"TOTALPATH", Str("0")>>,
              <<"THUMBNAILTYPE", Str("0")>> >>)

defaultLayers == <<"MAINLAYER", "LAYER1", "LAYER2", "LAYER3", "BGLAYER">>

\* The members of a page that the literal sets after ...data.
PageOwnMembers ==
  {"MAINLAYER", "LAYER1", "LAYER2", "LAYER3", "BGLAYER", "LAYERINFO",
   "LAYERSEQ", "totalPathBuffer"}

\* The members of the page literal that can throw, in its order: the five
\* layers, LAYERINFO, LAYERSEQ, totalPathBuffer.
PageParts(buf, data) ==
  [i \in 1..5 |-> Layer(buf, AddressIn(data, defaultLayers[i]))]
    \o <<LayerInfoIn(data), LayerSeqIn(data),
         GetContentAtAddress(buf, AddressIn(data, "TOTALPATH"), lengthFieldSize)>>

PageOf(data, parts) ==
  IF FirstThrow(parts).threw # "none" THEN FirstThrow(parts)
  ELSE Ok([fields |-> Remove(Spread(PageDefaults, data), PageOwnMembers),
           MAINLAYER |-> parts[1].value, LAYER1 |-> parts[2].value,
           LAYER2 |-> parts[3].value, LAYER3 |-> parts[4].value,
           BGLAYER |-> parts[5].value, LAYERINFO |-> parts[6].value,
           LAYERSEQ |-> parts[7].value, totalPathBuffer |-> parts[8].value])

\* The body of the map in _parsePages, for one key of footer.PAGE.
Page(buf, ftr, idx) ==
  Let(ParseKeyValue(buf, ParseInt(Get(Get(ftr, "PAGE"), idx)), lengthFieldSize),
      LAMBDA data :
        IF data.threw # "none" THEN data
        ELSE PageOf(data.value, PageParts(buf, data.value)))

\* The code unit of a character, for Array.prototype.sort's default order.
CharCode(c) == IF c = "\t" THEN 9 ELSE Ord(c)

RECURSIVE StrLess(_, _)
StrLess(a, b) ==
  IF a = "" THEN b # ""
  ELSE IF b = "" THEN FALSE
  ELSE IF CharAt(a, 1) # CharAt(b, 1)
  THEN CharCode(CharAt(a, 1)) < CharCode(CharAt(b, 1))
  ELSE StrLess(SubSeq(a, 2, Len(a)), SubSeq(b, 2, Len(b)))

\* The position of the least of distinct keys.
LeastAt(keys) ==
  CHOOSE i \in 1..Len(keys) :
    \A j \in 1..Len(keys) : j = i \/ StrLess(keys[i], keys[j])

\* keys.sort(): the keys of an object are distinct, so the order is total.
RECURSIVE Sort(_)
Sort(keys) ==
  IF keys = <<>> THEN <<>>
  ELSE Let(LeastAt(keys), LAMBDA m :
         <<keys[m]>> \o Sort(SubSeq(keys, 1, m - 1) \o SubSeq(keys, m + 1, Len(keys))))

AllOrFirstThrow(results) ==
  IF FirstThrow(results).threw # "none" THEN FirstThrow(results)
  ELSE Ok(Values(results))

PagesOf(buf, ftr, keys) ==
  AllOrFirstThrow([i \in 1..Len(keys) |-> Page(buf, ftr, keys[i])])

\* _parsePages
Pages(buf, ftr) == PagesOf(buf, ftr, Sort(Keys(Get(ftr, "PAGE"))))

\* parseInt(this.footer.COVER["0"] ?? this.footer.COVER["1"]); parseInt of
\* undefined is NaN.
CoverAddress(c) ==
  IF HasOwn(c, "0") THEN ParseInt(Get(c, "0"))
  ELSE IF HasOwn(c, "1") THEN ParseInt(Get(c, "1"))
  ELSE NaN

CoverAt(buf, address) ==
  IF address # NaN /\ address > 0
  THEN Let(GetContentAtAddress(buf, address, lengthFieldSize), LAMBDA bitmapBuffer :
         IF bitmapBuffer.threw # "none" THEN bitmapBuffer
         ELSE Ok([bitmapBuffer |-> bitmapBuffer.value]))
  ELSE Ok(Undefined)

\* _parseCover. NaN and 0 are falsy.
Cover(buf, ftr) == CoverAt(buf, CoverAddress(Get(ftr, "COVER")))

Rect0 == List(<<"0", "0", "0", "0">>)

KeywordDefaults ==
  ObjectOf(<< <<"KEYWORDSEQNO", Str("0")>>, <<"KEYWORDPAGE", Str("1")>>,
              <<"KEYWORDRECT", Rect0>>, <<"KEYWORDRECTORI", Rect0>>,
              <<"KEYWORDSITE", Str("0")>>, <<"KEYWORDLEN", Str("0")>>,
              <<"KEYWORD", Str("")>> >>)

\* _parseKeyword: the literal holds the defaults and the bitmap only.
Keyword(buf, address) ==
  Let(ParseKeyValue(buf, address, lengthFieldSize), LAMBDA data :
    IF data.threw # "none" THEN data
    ELSE Let(GetContentAtAddress(buf, AddressIn(data.value, "KEYWORDSITE"),
                                 lengthFieldSize),
             LAMBDA bitmapBuffer :
               IF bitmapBuffer.threw # "none" THEN bitmapBuffer
               ELSE Ok([fields |-> KeywordDefaults,
                        bitmapBuffer |-> bitmapBuffer.value])))

TitleDefaults ==
  ObjectOf(<< <<"TITLESEQNO", Str("0")>>, <<"TITLELEVEL", Str("1")>>,
              <<"TITLERECT", Rect0>>, <<"TITLERECTORI", Rect0>>,
              <<"TITLEBITMAP", Str("0")>>, <<"TITLEPROTOCOL", Str("RATTA_RLE")>>,
              <<"TITLESTYLE", Str("1000254")>> >>)

\* _parseTitle
Title(buf, address) ==
  Let(ParseKeyValue(buf, address, lengthFieldSize), LAMBDA data :
    IF data.threw # "none" THEN data
    ELSE Let(GetContentAtAddress(buf, AddressIn(data.value, "TITLEBITMAP"),
                                 lengthFieldSize),
             LAMBDA bitmapBuffer :
               IF bitmapBuffer.threw # "none" THEN bitmapBuffer
               ELSE Ok([fields |-> Remove(Spread(TitleDefaults, data.value),
                                          {"bitmapBuffer"}),
                        bitmapBuffer |-> bitmapBuffer.value])))

\* The forEach of _parseKeywords and _parseTitles over the entries of a footer
\* group, whose values are all strings: the array branch never runs. `entry`
\* is the result of _parseKeyword or _parseTitle for the entry's address. A key
\* that Object.prototype defines is `in` the empty record, gets no list, and
\* the push on the inherited value throws once its argument is evaluated. A
\* throw leaves in the field what was collected before it.
Pushed(acc, key, e) ==
  Assign(acc, key, (IF HasOwn(acc, key) THEN Get(acc, key) ELSE <<>>) \o <<e>>)

RECURSIVE Collect(_, _, _)
Collect(entries, acc, entry) ==
  IF entries = <<>> THEN Ok(acc)
  ELSE Let(entry[ParseInt(Head(entries).v)], LAMBDA e :
         IF e.threw # "none" THEN [threw |-> e.threw, value |-> acc]
         ELSE IF ~HasOwn(acc, Head(entries).k) /\ In(Head(entries).k, acc)
         THEN [threw |-> "TypeError", value |-> acc]
         ELSE Collect(Tail(entries), Pushed(acc, Head(entries).k, e.value), entry))

\* The addresses a footer group names.
Addresses(group) == {ParseInt(group[i].v) : i \in 1..Len(group)}

KeywordsOf(buf, group) ==
  Collect(group, EmptyObject, [a \in Addresses(group) |-> Keyword(buf, a)])

\* _parseKeywords
Keywords(buf, ftr) == KeywordsOf(buf, Get(ftr, "KEYWORD"))

TitlesOf(buf, group) ==
  Collect(group, EmptyObject, [a \in Addresses(group) |-> Title(buf, a)])

\* _parseTitles
Titles(buf, ftr) == TitlesOf(buf, Get(ftr, "TITLE"))

(* ------------------------------------------------------------------------ *)
(* The note files the decoder is run on.                                     *)
(* ------------------------------------------------------------------------ *)

\* Where the blocks of a modelled file sit, and the file's length.
Slots ==
  [header |-> 24, page |-> 60, layer |-> 180, bitmap |-> 230, keyword |-> 250,
   keyword2 |-> 300, title |-> 320, footer |-> 360, len |-> 460]

\* n as a little-endian field of w bytes.
RECURSIVE UintLE(_, _)
UintLE(n, w) == IF w = 0 THEN <<>> ELSE <<n % 256>> \o UintLE(n \div 256, w - 1)

\* A block: its length field, then its content.
Block(bytes) == UintLE(Len(bytes), lengthFieldSize) \o bytes

TextBlock(text) == Block(StringToBytes(text))

Zeros(n) == [i \in 1..n |-> 0]

\* The parts <<address, bytes>>, in address order, laid out from `at` on with
\* zero bytes between them.
RECURSIVE Layout(_, _)
Layout(parts, at) ==
  IF parts = <<>> THEN <<>>
  ELSE Zeros(parts[1][1] - at) \o parts[1][2]
         \o Layout(Tail(parts), parts[1][1] + Len(parts[1][2]))

GoodSignature == "noteSN_FILE_VER_20230101"

\* A file: signature, header, one page with one layer, a bitmap of three
\* bytes, two keyword entries, a title entry, the footer and its address.
MkFile(sig, footerAddress, footerText, pageText, keywordText, titleText) ==
  Layout(<< <<0, StringToBytes(sig)>>,
            <<Slots.header, TextBlock("<FILE_TYPE:NOTE><APP_VERSION:2>")>>,
            <<Slots.page, TextBlock(pageText)>>,
            <<Slots.layer, TextBlock("<LAYERNAME:MAINLAYER><LAYERBITMAP:230>")>>,
            <<Slots.bitmap, Block(<<7, 8, 9>>)>>,
            <<Slots.keyword, TextBlock(keywordText)>>,
            <<Slots.keyword2, TextBlock("<KEYWORDPAGE:4>")>>,
            <<Slots.title, TextBlock(titleText)>>,
            <<Slots.footer, TextBlock(footerText)>>,
            <<Slots.len - addressSize, UintLE(footerAddress, addressSize)>> >>, 0)

FullPageText ==
  "<MAINLAYER:180><LAYERINFO:[{\"layerId\"#1,\"isVisible\"#true}]><LAYERSEQ:MAINLAYER,BGLAYER><TOTALPATH:230>"

FullKeywordText == "<KEYWORDPAGE:3><KEYWORDSITE:230><KEYWORD:abc>"

FullTitleText == "<TITLELEVEL:2><TITLEBITMAP:230>"

\* Footer texts whose offsets all lie inside the file.
FooterTexts ==
  {"",
   "<FILE_FEATURE:24><COVER_0:0>",
   "<FILE_TYPE:NOTE>",
   "<COVER_1:230>",
   "<FILE_FEATURE:24><COVER_0:230><PAGE1:60>",
   "<PAGE1:0>",
   "<PAGE2:60><PAGE10:0><PAGE1:60><STYLE_style_white:0>",
   "<FILE_FEATURE:24><KEYWORD_5:250><KEYWORD_9:300><TITLE_7:320>",
   "<KEYWORD_5:250><KEYWORD_5:300>",
   "<TITLE_7:320><TITLE_7:320><TITLE_8:0>"}

\* Footer texts with a category that Object.prototype also names.
FooterTextsInherited == {"<KEYWORD_constructor:250>", "<TITLE_valueOf:320>"}

\* Footer texts with an offset whose block does not lie inside the file.
FooterTextsPastEnd ==
  {"<COVER_0:458>", "<KEYWORD_5:470>", "<FILE_FEATURE:459>", "<PAGE1:456>"}

PageTexts ==
  {FullPageText,
   "<PAGESTYLE:style_white><LAYERINFO:[{\"layerId\"#0}]><LAYERSEQ:MAINLAYER>",
   "<MAINLAYER:180><LAYERINFO:[{\"layerId\"#0}]>",
   "<MAINLAYER:180><LAYERSEQ:MAINLAYER><TOTALPATH:230>"}

KeywordTexts == {FullKeywordText, "<KEYWORDSEQNO:2>", ""}

TitleTexts == {FullTitleText, "<TITLESEQNO:4>", ""}

\* Signatures that the pattern rejects.
BadSignatures ==
  {"noteSN_FILE_VER_2023010x", "noteSN_FILE_VER_x0230101",
   "noteSN_FILE_VER_", "NOTESN_FILE_VER_20230101",
   "noteSN-FILE_VER_20230101", "_noteSN_FILE_VER_2023010"}

\* Buffers shorter than a signature, the empty buffer among them.
ShortBuffers ==
  {StringToBytes(SubSeq(GoodSignature, 1, n)) : n \in {0, 3, 16, 23}}

\* Files with a good signature whose offsets and lengths all lie inside them.
FilesInBounds ==
  {MkFile(GoodSignature, Slots.footer, ft, FullPageText, FullKeywordText,
          FullTitleText) : ft \in FooterTexts}
    \cup {MkFile(GoodSignature, Slots.footer, "<PAGE1:60>", pt, "", "") :
            pt \in PageTexts}
    \cup {MkFile(GoodSignature, Slots.footer,
                 "<KEYWORD_5:250><KEYWORD_9:300><TITLE_7:320>", FullPageText,
                 kt, tt) : kt \in KeywordTexts, tt \in TitleTexts}
    \cup {MkFile(GoodSignature, 0, "", FullPageText, "", "")}

\* Files with a good signature and an offset or a length that leaves them.
FilesPastEnd ==
  {MkFile(GoodSignature, Slots.footer, ft, FullPageText, FullKeywordText,
          FullTitleText) : ft \in FooterTextsPastEnd}
    \cup {MkFile(GoodSignature, a, "", FullPageText, "", "") :
            a \in {Slots.len - addressSize, Slots.len}}

FilesInherited ==
  {MkFile(GoodSignature, Slots.footer, ft, FullPageText, FullKeywordText,
          FullTitleText) : ft \in FooterTextsInherited}

FilesBadSignature ==
  {MkFile(sig, Slots.footer, "<PAGE1:60>", FullPageText, "", "") :
     sig \in BadSignatures} \cup ShortBuffers

Files == FilesInBounds \cup FilesPastEnd \cup FilesInherited \cup FilesBadSignature

(* ------------------------------------------------------------------------ *)
(* The decode of one file: new SupernoteX(buffer).                           *)
(* ------------------------------------------------------------------------ *)

NoCall == [none |-> TRUE]

Init ==
  /\ buffer \in Files
  /\ pc = "signature"
  /\ err = "none"
  /\ signature = Undefined
  /\ footer = Undefined
  /\ header = Undefined
  /\ pages = Undefined
  /\ cover = Undefined
  /\ keywords = Undefined
  /\ titles = Undefined
  /\ args = NoCall
  /\ ret = NoCall

ParseSignature ==
  /\ pc = "signature"
  /\ \E r \in {Signature(buffer)} :
       IF r.threw # "none"
       THEN pc' = "threw" /\ err' = r.threw /\ UNCHANGED signature
       ELSE pc' = "footer" /\ signature' = r.value /\ UNCHANGED err
  /\ UNCHANGED <<buffer, footer, header, pages, cover, keywords, titles, args, ret>>

ParseFooter ==
  /\ pc = "footer"
  /\ \E r \in {Footer(buffer)} :
       IF r.threw # "none"
       THEN pc' = "threw" /\ err' = r.threw /\ UNCHANGED footer
       ELSE pc' = "header" /\ footer' = r.value /\ UNCHANGED err
  /\ UNCHANGED <<buffer, signature, header, pages, cover, keywords, titles, args, ret>>

ParseHeader ==
  /\ pc = "header"
  /\ \E r \in {Header(buffer, footer)} :
       IF r.threw # "none"
       THEN pc' = "threw" /\ err' = r.threw /\ UNCHANGED header
       ELSE pc' = "pages" /\ header' = r.value /\ UNCHANGED err
  /\ UNCHANGED <<buffer, signature, footer, pages, cover, keywords, titles, args, ret>>

ParsePages ==
  /\ pc = "pages"
  /\ \E r \in {Pages(buffer, footer)} :
       IF r.threw # "none"
       THEN pc' = "threw" /\ err' = r.threw /\ UNCHANGED pages
       ELSE pc' = "cover" /\ pages' = r.value /\ UNCHANGED err
  /\ UNCHANGED <<buffer, signature, footer, header, cover, keywords, titles, args, ret>>

ParseCover ==
  /\ pc = "cover"
  /\ \E r \in {Cover(buffer, footer)} :
       IF r.threw # "none"
       THEN pc' = "threw" /\ err' = r.threw /\ UNCHANGED cover
       ELSE pc' = "keywords" /\ cover' = r.value /\ UNCHANGED err
  /\ UNCHANGED <<buffer, signature, footer, header, pages, keywords, titles, args, ret>>

\* this.keywords = {} comes before the loop.
ParseKeywords ==
  /\ pc = "keywords"
  /\ \E r \in {Keywords(buffer, footer)} :
       /\ keywords' = r.value
       /\ IF r.threw # "none"
          THEN pc' = "threw" /\ err' = r.threw
          ELSE pc' = "titles" /\ UNCHANGED err
  /\ UNCHANGED <<buffer, signature, footer, header, pages, cover, titles, args, ret>>

\* this.titles = {} comes before the loop.
ParseTitles ==
  /\ pc = "titles"
  /\ \E r \in {Titles(buffer, footer)} :
       /\ titles' = r.value
       /\ IF r.threw # "none"
          THEN pc' = "threw" /\ err' = r.threw
          ELSE pc' = "done" /\ UNCHANGED err
  /\ UNCHANGED <<buffer, signature, footer, header, pages, cover, keywords, args, ret>>

Next ==
  \/ ParseSignature
  \/ ParseFooter
  \/ ParseHeader
  \/ ParsePages
  \/ ParseCover
  \/ ParseKeywords
  \/ ParseTitles

Spec == Init /\ [][Next]_vars

(* ------------------------------------------------------------------------ *)
(* Properties of the decode of one file.                                     *)
(* ------------------------------------------------------------------------ *)

\* The first 24 bytes are the codes of "noteSN_FILE_VER_" and of eight
\* decimal digits.
SignatureBytes(buf) ==
  /\ Len(buf) >= 24
  /\ SubSeq(buf, 1, 16)
       = <<110, 111, 116, 101, 83, 78, 95, 70, 73, 76, 69, 95, 86, 69, 82, 95>>
  /\ \A i \in 17..24 : buf[i] \in 48..57

\* The flat record of the footer's tagged text.
FooterFlat(buf) == ParseKeyValue(buf, FooterAddress(buf), lengthFieldSize).value

\* The value the text gives key k, or dflt when the text has no such key.
TextValueOr(flat, k, dflt) ==
  IF HasOwn(flat, k) /\ IsString(Get(flat, k)) THEN StrOf(Get(flat, k)) ELSE dflt

\* How many times the text gives key k.
Occurrences(flat, k) ==
  IF ~HasOwn(flat, k) THEN 0
  ELSE IF IsString(Get(flat, k)) THEN 1 ELSE Len(Get(flat, k).v)

\* The i-th value the text gives key k.
Occurrence(flat, k, i) ==
  IF IsString(Get(flat, k)) THEN StrOf(Get(flat, k)) ELSE Get(flat, k).v[i]

\* C1: a file with a valid signature whose offsets and lengths all lie inside
\* it decodes to a document; decoding it never ends in an error, also when a
\* page's offset is 0 or its block lacks LAYERINFO, LAYERSEQ or another key.
C1_AbsenceIsNeverAnError == buffer \in FilesInBounds => pc # "threw"

\* C2: once the signature stage has run, a buffer whose first 24 bytes are not
\* "noteSN_FILE_VER_" and eight digits has failed with the signature error and
\* no later stage has set its field; a buffer whose first 24 bytes are has
\* exactly those 24 characters as its signature.
C2_SignatureGate ==
  pc # "signature" =>
    IF SignatureBytes(buffer)
    THEN /\ Len(signature) = 24
         /\ StringToBytes(signature) = SubSeq(buffer, 1, 24)
         /\ err # "SignatureMismatch"
    ELSE /\ pc = "threw"
         /\ err = "SignatureMismatch"
         /\ doc = <<Undefined, Undefined, Undefined, Undefined, Undefined,
                    Undefined, Undefined>>

\* A file of full length was rejected for its signature.
C2_Witness ==
  /\ pc = "threw"
  /\ err = "SignatureMismatch"
  /\ Len(buffer) = Slots.len
  /\ SubSeq(buffer, 1, 16) = SubSeq(StringToBytes(GoodSignature), 1, 16)

\* Where a decode is once the footer stage has returned.
AfterFooter == {"header", "pages", "cover", "keywords", "titles", "done"}

\* C7: after the footer stage the footer has its six groups, FILE.FEATURE is
\* the text's FILE_FEATURE value or else "24", and COVER."0" is the text's
\* COVER_0 value or else "0", whatever other keys of those groups the text has.
C7_FooterDefaultsOverlaid ==
  pc \in AfterFooter =>
    /\ \A g \in {"FILE", "COVER", "KEYWORD", "TITLE", "STYLE", "PAGE"} :
         HasOwn(footer, g)
    /\ HasOwn(Get(footer, "FILE"), "FEATURE")
    /\ Get(Get(footer, "FILE"), "FEATURE")
         = TextValueOr(FooterFlat(buffer), "FILE_FEATURE", "24")
    /\ HasOwn(Get(footer, "COVER"), "0")
    /\ Get(Get(footer, "COVER"), "0")
         = TextValueOr(FooterFlat(buffer), "COVER_0", "0")

\* The entries collected under a category are those of the offsets the footer
\* text gives the category's key, in the text's order.
ListKeepsEveryAddress(flat, groupName, collected, entry(_)) ==
  \A i \in 1..Len(flat) :
    StartsWith(flat[i].k, groupName \o "_") =>
      Let(SubstringFrom(flat[i].k, Len(groupName) + 1), LAMBDA category :
        /\ HasOwn(collected, category)
        /\ Len(Get(collected, category)) = Occurrences(flat, flat[i].k)
        /\ \A j \in 1..Occurrences(flat, flat[i].k) :
             Get(collected, category)[j]
               = entry(ParseInt(Occurrence(flat, flat[i].k, j))))

KeywordAt(a) == Keyword(buffer, a).value

TitleAt(a) == Title(buffer, a).value

\* C8: in a decoded document, a category that the footer text lists m times
\* under KEYWORD (TITLE) has exactly m keyword (title) entries, the i-th
\* resolved from the i-th offset.
C8_ListsKeepEveryAddress ==
  pc = "done" =>
    /\ ListKeepsEveryAddress(FooterFlat(buffer), "KEYWORD", keywords, KeywordAt)
    /\ ListKeepsEveryAddress(FooterFlat(buffer), "TITLE", titles, TitleAt)

\* Every entry of a category, resolved from a non-zero offset, has each of the
\* named fields: the value of its block's text when the key is there, the
\* default otherwise.
EntriesMergeOverDefaults(group, collected, defaults, fieldNames) ==
  \A i \in 1..Len(group) :
    ParseInt(group[i].v) # 0 =>
      /\ HasOwn(collected, group[i].k)
      /\ \A j \in 1..Len(Get(collected, group[i].k)) :
           \A f \in fieldNames :
             Let(ParseKeyValue(buffer, ParseInt(group[i].v), lengthFieldSize).value,
                 LAMBDA data :
                   /\ HasOwn(Get(collected, group[i].k)[j].fields, f)
                   /\ Get(Get(collected, group[i].k)[j].fields, f)
                        = IF HasOwn(data, f) THEN Get(data, f)
                          ELSE Get(defaults, f))

\* C9: in a decoded document every keyword entry and every title entry
\* resolved from a non-zero offset has each metadata field equal to the value
\* in the entry's block when the key is there, and to the default otherwise.
C9_EntriesMergeOverDefaults ==
  pc = "done" =>
    /\ EntriesMergeOverDefaults(Get(footer, "KEYWORD"), keywords, KeywordDefaults,
         {"KEYWORDSEQNO", "KEYWORDPAGE", "KEYWORDSITE", "KEYWORDLEN", "KEYWORD"})
    /\ EntriesMergeOverDefaults(Get(footer, "TITLE"), titles, TitleDefaults,
         {"TITLESEQNO", "TITLELEVEL", "TITLEBITMAP", "TITLEPROTOCOL",
          "TITLESTYLE"})

(* ------------------------------------------------------------------------ *)
(* getContentAtAddress on its own.                                           *)
(* ------------------------------------------------------------------------ *)

\* The sequences over S of length at most n.
SeqsUpTo(S, n) == UNION {[1..k -> S] : k \in 0..n}

ByteValues == {0, 1, 2}

\* Zero bytes after the data bytes, so that wide length fields fit.
Paddings == {0, 8}

ResolveAddresses == ((0 - 1)..(MaxBufLen + 1)) \cup {NaN}

ResolveWidths == 0..7

ResolveInputs ==
  {[buffer |-> data \o Zeros(p), address |-> a, byteLength |-> w] :
     data \in SeqsUpTo(ByteValues, MaxBufLen), p \in Paddings,
     a \in ResolveAddresses, w \in ResolveWidths}

NoDocument ==
  /\ buffer = <<>>
  /\ err = "none"
  /\ signature = Undefined
  /\ footer = Undefined
  /\ header = Undefined
  /\ pages = Undefined
  /\ cover = Undefined
  /\ keywords = Undefined
  /\ titles = Undefined

InitResolve ==
  /\ NoDocument
  /\ pc = "call"
  /\ args \in ResolveInputs
  /\ ret = NoCall

Resolve ==
  /\ pc = "call"
  /\ ret' = GetContentAtAddress(args.buffer, args.address, args.byteLength)
  /\ pc' = "returned"
  /\ UNCHANGED <<buffer, err, doc, args>>

SpecResolve == InitResolve /\ [][Resolve]_vars

\* The w bytes at offset a of buf lie inside buf and encode n, and the n
\* bytes after them lie inside buf too.
Announces(buf, a, w, n) ==
  /\ a + w + n <= Len(buf)
  /\ SubSeq(buf, a + 1, a + w) = UintLE(n, w)

\* A call with a positive offset whose block of n content bytes lies inside
\* the buffer returned exactly those n bytes.
ExactBlock(n) ==
  Announces(args.buffer, args.address, args.byteLength, n) =>
    ret = Ok(Content(SubSeq(args.buffer, args.address + args.byteLength + 1,
                            args.address + args.byteLength + n)))

\* C3 as stated: for every width, a block that lies inside the buffer is
\* returned exactly, and offset 0 gives null for every buffer and width.
C3_ExactBlockEveryWidth ==
  pc = "returned" =>
    /\ args.address = 0 => ret = Ok(Null)
    /\ (args.address > 0 /\ args.byteLength >= 1) =>
         \A n \in 0..Len(args.buffer) : ExactBlock(n)

\* C3 amended: for a width of 1 to 6 bytes, a block that lies inside the
\* buffer is returned exactly: the n bytes after the length field, n being the
\* little-endian value of the field; offset 0 gives null for every buffer and
\* every width.
C3_ExactBlock ==
  pc = "returned" =>
    /\ args.address = 0 => ret = Ok(Null)
    /\ (args.address > 0 /\ args.byteLength \in 1..6) =>
         \A n \in 0..Len(args.buffer) : ExactBlock(n)

\* A two-byte length field at offset 1 announced two bytes, which came back.
C3_Witness ==
  /\ pc = "returned"
  /\ args.address = 1
  /\ args.byteLength = 2
  /\ Announces(args.buffer, 1, 2, 2)
  /\ ret.threw = "none"
  /\ ret.value.bytes = <<1, 0>>

\* C4: a call with a non-zero offset whose length field, or whose announced
\* content, reaches past the end of the buffer fails with a range error; it
\* never returns fewer bytes than announced.
C4_OutOfBoundsIsFatal ==
  (pc = "returned" /\ args.address > 0 /\ args.byteLength \in 1..6) =>
    IF args.address + args.byteLength > Len(args.buffer)
    THEN ret.threw = "RangeError"
    ELSE args.address + args.byteLength
           + ReadUintLE(args.buffer, args.address, args.byteLength)
           > Len(args.buffer)
         => ret.threw = "RangeError"

(* ------------------------------------------------------------------------ *)
(* extractKeyValue on its own.                                               *)
(* ------------------------------------------------------------------------ *)

RECURSIVE Concat(_)
Concat(pieces) ==
  IF Len(pieces) = 0 THEN "" ELSE pieces[1] \o Concat(Tail(pieces))

\* The texts made of at most n of the fragments.
TextsOf(fragments, n) == {Concat(fs) : fs \in SeqsUpTo(fragments, n)}

KVFragments ==
  {"<K:a>", "<K:b>", "<J:c>", "<constructor:d>", "<K", ":e>", "x", "<:v>",
   "<K:>"}

InitExtract ==
  /\ NoDocument
  /\ pc = "call"
  /\ args \in {[content |-> t] : t \in TextsOf(KVFragments, MaxFrags)}
  /\ ret = NoCall

Extract ==
  /\ pc = "call"
  /\ ret' = ExtractKeyValue(args.content)
  /\ pc' = "returned"
  /\ UNCHANGED <<buffer, err, doc, args>>

SpecExtract == InitExtract /\ [][Extract]_vars

\* The positions of character c in s.
Pos(s, c) == {i \in 1..Len(s) : CharAt(s, i) = c}

\* The matches <KEY:VALUE> of a text, as <<start, colon, end>>: key and value
\* are not empty and hold no "<", ">" or ":". No two of them overlap.
TagMatches(s) ==
  {m \in Pos(s, "<") \X Pos(s, ":") \X Pos(s, ">") :
     /\ m[1] + 1 < m[2]
     /\ m[2] + 1 < m[3]
     /\ \A i \in (m[1] + 1)..(m[3] - 1) :
          i # m[2] => CharAt(s, i) \notin KVExcluded}

TagKey(s, m) == SubSeq(s, m[1] + 1, m[2] - 1)

TagValue(s, m) == SubSeq(s, m[2] + 1, m[3] - 1)

\* The matches with key k, and the n-th of them from the left.
TagMatchesOf(s, k) == {m \in TagMatches(s) : TagKey(s, m) = k}

NthTagMatchOf(s, k, n) ==
  CHOOSE m \in TagMatchesOf(s, k) :
    Cardinality({m2 \in TagMatchesOf(s, k) : m2[1] <= m[1]}) = n

\* Key k of the record is what the text's matches with key k say.
KeyAsInText(record, s, k) ==
  Let(Cardinality(TagMatchesOf(s, k)), LAMBDA m :
    IF m = 0 THEN ~HasOwn(record, k)
    ELSE /\ HasOwn(record, k)
         /\ IF m = 1
            THEN Get(record, k) = Str(TagValue(s, NthTagMatchOf(s, k, 1)))
            ELSE /\ Get(record, k).list
                 /\ Len(Get(record, k).v) = m
                 /\ \A n \in 1..m :
                      Get(record, k).v[n] = TagValue(s, NthTagMatchOf(s, k, n)))

\* C5: for every text the extraction returns a record in which a key that
\* occurs once has its single value, a key that occurs m > 1 times has the
\* list of its m values in the text's order, and no other key is present.
C5_ExtractKeyValue ==
  pc = "returned" =>
    /\ ret.threw = "none"
    /\ \A m \in TagMatches(args.content) :
         KeyAsInText(ret.value, args.content, TagKey(args.content, m))
    /\ \A i \in 1..Len(ret.value) :
         TagMatchesOf(args.content, ret.value[i].k) # {}

(* ------------------------------------------------------------------------ *)
(* extractNestedKeyValue on its own.                                         *)
(* ------------------------------------------------------------------------ *)

GroupKeys ==
  {"PAGE1", "PAGE2", "STYLE_NAME", "PAGE_1", "PAGE", "_X", "A--B",
   "constructor_x", "OTHER"}

GroupValues == {Str("x"), Str("y"), List(<<"p", "q">>)}

\* Flat records of at most n entries, as extractKeyValue builds them.
FlatRecords(n) ==
  {r \in SeqsUpTo([k : GroupKeys, v : GroupValues], n) :
     \A i, j \in 1..Len(r) : i # j => r[i].k # r[j].k}

GroupInputs ==
  {[record |-> r, delimiter |-> d, prefixes |-> ps] :
     r \in FlatRecords(MaxEntries), d \in {"_", "--"},
     ps \in {<<>>, <<"PAGE">>, <<"PA", "PAGE">>}}

InitGroup ==
  /\ NoDocument
  /\ pc = "call"
  /\ args \in GroupInputs
  /\ ret = NoCall

Group ==
  /\ pc = "call"
  /\ ret' = ExtractNestedKeyValue(args.record, args.delimiter, args.prefixes)
  /\ pc' = "returned"
  /\ UNCHANGED <<buffer, err, doc, args>>

SpecGroup == InitGroup /\ [][Group]_vars

\* Where the rules place a key: before and after the delimiter's first
\* occurrence, or else the first prefix the key starts with and the rest.
PlaceOf(key, delimiter, prefixes) ==
  IF IndexOf(key, delimiter) >= 0
  THEN [main |-> SubSeq(key, 1, IndexOf(key, delimiter)),
        sub |-> SubstringFrom(key, IndexOf(key, delimiter) + Len(delimiter))]
  ELSE IF \E i \in 1..Len(prefixes) : StartsWith(key, prefixes[i])
  THEN Let(CHOOSE i \in 1..Len(prefixes) :
             /\ StartsWith(key, prefixes[i])
             /\ \A j \in 1..(i - 1) : ~StartsWith(key, prefixes[j]),
           LAMBDA i : [main |-> prefixes[i],
                       sub |-> SubstringFrom(key, Len(prefixes[i]))])
  ELSE NoSplit

\* The entries of the call's record that the rules place under main and sub.
PlacedAt(main, sub) ==
  {i \in 1..Len(args.record) :
     /\ IsString(args.record[i].v)
     /\ PlaceOf(args.record[i].k, args.delimiter, args.prefixes)
          = [main |-> main, sub |-> sub]}

\* C6: every scalar key with a group and a sub-key under the rules is in the
\* output at that place (the latest such key's value), and the output holds
\* nothing else: no other key, no list-valued key, no group without sub-keys.
C6_KeyGrouping ==
  pc = "returned" =>
    /\ ret.threw = "none"
    /\ \A i \in 1..Len(args.record) :
         Let(PlaceOf(args.record[i].k, args.delimiter, args.prefixes), LAMBDA at :
           (IsString(args.record[i].v) /\ at.main # "" /\ at.sub # "") =>
             /\ HasOwn(ret.value, at.main)
             /\ HasOwn(Get(ret.value, at.main), at.sub)
             /\ \E j \in PlacedAt(at.main, at.sub) :
                  /\ \A l \in PlacedAt(at.main, at.sub) : l <= j
                  /\ Get(Get(ret.value, at.main), at.sub)
                       = StrOf(args.record[j].v))
    /\ \A g \in 1..Len(ret.value) :
         /\ ret.value[g].v # <<>>
         /\ \A e \in 1..Len(ret.value[g].v) :
              PlacedAt(ret.value[g].k, ret.value[g].v[e].k) # {}

(* ------------------------------------------------------------------------ *)
(* extractLayerInfo on its own.                                              *)
(* ------------------------------------------------------------------------ *)

LayerFragments ==
  {"{\"layerId\"#\"1\",\"name\"#\"Background\",\"isVisible\"#\"true\"}",
   "{}",
   "{\"isVisible\"#\"false\",\"isDeleted\"#true,\"layerId\"#7}",
   "{\"name\"#\"A\",\"name\"#\"B\",\"isAllowAdd\"#\"TRUE\"}",
   "{x}", "[", ",", "{", "}", "\"layerId\"#2"}

InitLayerInfo ==
  /\ NoDocument
  /\ pc = "call"
  /\ args \in {[content |-> t] : t \in TextsOf(LayerFragments, MaxLayerFrags)}
  /\ ret = NoCall

LayerInfo ==
  /\ pc = "call"
  /\ ret' = ExtractLayerInfo(args.content)
  /\ pc' = "returned"
  /\ UNCHANGED <<buffer, err, doc, args>>

SpecLayerInfo == InitLayerInfo /\ [][LayerInfo]_vars

\* The brace pairs <<open, close>> of a text with no brace between them.
BracePairs(s) ==
  {g \in Pos(s, "{") \X Pos(s, "}") :
     /\ g[1] < g[2]
     /\ \A i \in (g[1] + 1)..(g[2] - 1) : CharAt(s, i) \notin LayerExcluded}

\* Those that enclose at least one character.
FilledBracePairs(s) == {g \in BracePairs(s) : g[1] + 1 < g[2]}

\* The n-th of the pairs from the left.
NthPair(pairs, n) ==
  CHOOSE g \in pairs : Cardinality({h \in pairs : h[1] <= g[1]}) = n

\* A piece "key"#"value" or "key"#value: the key is not empty and holds no
\* quote, bracket, brace, comma or "#"; the value is not empty and holds no
\* quote, bracket, brace or comma.
KeyEnd(piece) == NextAt(piece, 2, "\"")

QuotedValue(piece) ==
  /\ KeyEnd(piece) + 3 < Len(piece)
  /\ CharAt(piece, KeyEnd(piece) + 2) = "\""
  /\ CharAt(piece, Len(piece)) = "\""

PairKey(piece) == SubSeq(piece, 2, KeyEnd(piece) - 1)

PairValue(piece) ==
  IF QuotedValue(piece) THEN SubSeq(piece, KeyEnd(piece) + 3, Len(piece) - 1)
  ELSE SubSeq(piece, KeyEnd(piece) + 2, Len(piece))

IsPair(piece) ==
  /\ Len(piece) >= 5
  /\ CharAt(piece, 1) = "\""
  /\ KeyEnd(piece) > 2
  /\ KeyEnd(piece) + 1 < Len(piece)
  /\ CharAt(piece, KeyEnd(piece) + 1) = "#"
  /\ \A i \in 1..Len(PairKey(piece)) :
       CharAt(PairKey(piece), i) \notin DictKeyExcluded \cup {",", "#"}
  /\ \A i \in 1..Len(PairValue(piece)) :
       CharAt(PairValue(piece), i) \notin DictValueExcluded

\* The value of the last of the pairs with key k, or dflt when there is none.
LastValue(pieces, k, dflt) ==
  IF \E i \in 1..Len(pieces) : PairKey(pieces[i]) = k
  THEN PairValue(pieces[CHOOSE i \in 1..Len(pieces) :
                          /\ PairKey(pieces[i]) = k
                          /\ \A j \in (i + 1)..Len(pieces) :
                               PairKey(pieces[j]) # k])
  ELSE dflt

\* The record a list of pairs stands for.
InfoOfPairs(pieces) ==
  [layerId |-> ParseInt(LastValue(pieces, "layerId", "0")),
   name |-> LastValue(pieces, "name", "Main layer"),
   isBackgroundLayer |-> LastValue(pieces, "isBackgroundLayer", "") = "true",
   isAllowAdd |-> LastValue(pieces, "isAllowAdd", "") = "true",
   isCurrentLayer |-> LastValue(pieces, "isCurrentLayer", "") = "true",
   isVisible |-> LastValue(pieces, "isVisible", "") = "true",
   isDeleted |-> LastValue(pieces, "isDeleted", "") = "true",
   isAllowUp |-> LastValue(pieces, "isAllowUp", "") = "true",
   isAllowDown |-> LastValue(pieces, "isAllowDown", "") = "true"]

\* The result has one record per pair of `groups`, in the text's order, and
\* the record of a group that is a comma-separated list of pairs has the
\* fields the pairs name and the defaults for the others.
OneInfoPerGroup(groups) ==
  /\ Len(ret) = Cardinality(groups)
  /\ \A n \in 1..Cardinality(groups) :
       Let(Split(SubSeq(args.content, NthPair(groups, n)[1] + 1,
                        NthPair(groups, n)[2] - 1), ","),
           LAMBDA pieces :
             (\A i \in 1..Len(pieces) : IsPair(pieces[i])) =>
               ret[n] = InfoOfPairs(pieces))

\* C10 as stated: one record per brace-delimited group, the empty group {}
\* among them.
C10_OneInfoPerBraceGroup ==
  pc = "returned" => OneInfoPerGroup(BracePairs(args.content))

\* C10 amended: one record per brace pair that encloses a non-empty run of
\* characters other than braces, in the text's order; the record of a group
\* that is a comma-separated list of "key"#"value" pairs has layerId the
\* integer of the last layerId value (0 if none), name the last name value
\* ("Main layer" if none), and each flag true exactly when its last value is
\* the string "true".
C10_OneInfoPerFilledGroup ==
  pc = "returned" => OneInfoPerGroup(FilledBracePairs(args.content))

\* The example of the specification came back as its one record, after a
\* group that is no list of pairs.
C10_Witness ==
  /\ pc = "returned"
  /\ Len(ret) = 2
  /\ ret[2] = [layerId |-> 1, name |-> "Background", isBackgroundLayer |-> FALSE,
               isAllowAdd |-> FALSE, isCurrentLayer |-> FALSE,
               isVisible |-> TRUE, isDeleted |-> FALSE, isAllowUp |-> FALSE,
               isAllowDown |-> FALSE]

====
